---- MODULE Spec2Model ----
(***************************************************************************)
(* Model of src/index.js: the ManaBox CSV -> Scryfall -> MongoDB import.   *)
(* One run of the anonymous async entry (lines 255-270): connectToDb,      *)
(* readCsv, processRecords (one processBatch per slice), saveCollection,   *)
(* disconnect; every failure goes through exit(err) (lines 21-30).         *)
(* One action per await point of the code; the synchronous code between    *)
(* two awaits is one atomic step, as it is in the JavaScript event loop.   *)
(***************************************************************************)
EXTENDS Integers, Sequences, FiniteSets, TLC

(* ---------------------------- bounds ----------------------------------- *)
\* BATCH_SIZE is 75 at src/index.js:8; the model scales it down so that a
\* file of MaxRows rows is cut into several batches.
BATCH_SIZE == 2
MaxRows == 3
MaxResp == 2

(* ------------------------- JavaScript values --------------------------- *)
\* The JavaScript value undefined (a missing property).
Undefined == "undefined"

(* ---- natural numbers of any size: little-endian sequences of limbs ---- *)
\* The mantissa of a double has 53 bits and a product of two has 106, but
\* the integers of TLC have 32: a natural number is the sequence of
\* its digits in base Base, lowest first, without leading zero digits.
LimbBits == 14
Base == 2^LimbBits

Max(a, b) == IF a >= b THEN a ELSE b

Low(n) == IF n = <<>> THEN 0 ELSE Head(n)
Rest(n) == IF n = <<>> THEN <<>> ELSE Tail(n)

\* l + Base * n.
Push(l, n) == IF n = <<>> /\ l = 0 THEN <<>> ELSE <<l>> \o n

\* The natural number k >= 0.
RECURSIVE NatOf(_)
NatOf(k) == IF k = 0 THEN <<>> ELSE Push(k % Base, NatOf(k \div Base))

\* a + b + c for a carry c.
RECURSIVE AddC(_, _, _)
AddC(a, b, c) ==
    IF a = <<>> /\ b = <<>> THEN NatOf(c)
    ELSE LET t == Low(a) + Low(b) + c
         IN Push(t % Base, AddC(Rest(a), Rest(b), t \div Base))

\* a - b - c for a borrow c, when a >= b + c.
RECURSIVE SubC(_, _, _)
SubC(a, b, c) ==
    IF a = <<>> THEN <<>>
    ELSE LET t == Low(a) - Low(b) - c
         IN IF t >= 0 THEN Push(t, SubC(Rest(a), Rest(b), 0))
            ELSE Push(t + Base, SubC(Rest(a), Rest(b), 1))

\* -1, 0 or 1 as a < b, a = b or a > b.
RECURSIVE CmpN(_, _)
CmpN(a, b) ==
    IF Len(a) # Len(b) THEN (IF Len(a) < Len(b) THEN 0 - 1 ELSE 1)
    ELSE IF a = <<>> THEN 0
    ELSE LET h == Len(a)
         IN IF a[h] # b[h] THEN (IF a[h] < b[h] THEN 0 - 1 ELSE 1)
            ELSE CmpN(SubSeq(a, 1, h - 1), SubSeq(b, 1, h - 1))

\* a * k + c for 0 <= k, c < Base.
RECURSIVE MulC(_, _, _)
MulC(a, k, c) ==
    IF a = <<>> THEN NatOf(c)
    ELSE LET t == Head(a) * k + c
         IN Push(t % Base, MulC(Tail(a), k, t \div Base))

\* a * b.
RECURSIVE MulN(_, _)
MulN(a, b) ==
    IF b = <<>> THEN <<>>
    ELSE AddC(MulC(a, Head(b), 0), Push(0, MulN(a, Tail(b))), 0)

\* Quotient and remainder of a by k, for 0 < k < Base.
RECURSIVE DivC(_, _)
DivC(a, k) ==
    IF a = <<>> THEN [q |-> <<>>, r |-> 0]
    ELSE LET hi == DivC(Tail(a), k)
             t == hi.r * Base + Head(a)
         IN [q |-> Push(t \div k, hi.q), r |-> t % k]

\* n * 2^bits.
RECURSIVE Shl(_, _)
Shl(n, bits) ==
    IF bits = 0 \/ n = <<>> THEN n
    ELSE IF bits >= LimbBits THEN Push(0, Shl(n, bits - LimbBits))
    ELSE MulC(n, 2^bits, 0)

\* floor(n / 2^bits).
RECURSIVE Shr(_, _)
Shr(n, bits) ==
    IF bits = 0 \/ n = <<>> THEN n
    ELSE IF bits >= LimbBits THEN Shr(Tail(n), bits - LimbBits)
    ELSE DivC(n, 2^bits).q

\* The number of binary digits of n.
BitLen(n) ==
    IF n = <<>> THEN 0
    ELSE LimbBits * (Len(n) - 1)
         + (CHOOSE b \in 1..LimbBits : 2^(b - 1) <= n[Len(n)] /\ n[Len(n)] < 2^b)

\* n * 10^k, four decimal digits at a time.
RECURSIVE Mul10(_, _)
Mul10(n, k) ==
    IF k = 0 THEN n
    ELSE IF k >= 4 THEN MulC(Mul10(n, k - 4), 10000, 0)
    ELSE MulC(n, 10^k, 0)

\* floor(n / 10^k), and whether the division left a remainder, four decimal
\* digits at a time.
RECURSIVE Div10(_, _)
Div10(n, k) ==
    IF k = 0 THEN [q |-> n, inexact |-> FALSE]
    ELSE LET lo == IF k >= 4 THEN 4 ELSE k
             hi == Div10(n, k - lo)
             x == DivC(hi.q, 10^lo)
         IN [q |-> x.q, inexact |-> hi.inexact \/ x.r # 0]

(* ------------------- JavaScript numbers: IEEE doubles ------------------ *)
\* A number is NaN, an infinity, or the finite double s * m * 2^e with s the
\* sign, m an odd natural below 2^53 (or zero, with e = 0): one value of the
\* model per double, except that the two zeros are one.
NaN == [kind |-> "NaN", s |-> 1, m |-> <<>>, e |-> 0]
Infinity(s) == [kind |-> "Infinity", s |-> s, m |-> <<>>, e |-> 0]
Zero == [kind |-> "finite", s |-> 1, m |-> <<>>, e |-> 0]

\* n * 2^e with the factors of two of n moved into the exponent.
RECURSIVE Strip(_, _)
Strip(n, e) ==
    IF Head(n) = 0 THEN Strip(Tail(n), e + LimbBits)
    ELSE IF Head(n) % 2 = 0 THEN Strip(DivC(n, 2).q, e + 1)
    ELSE [m |-> n, e |-> e]

\* The double s * n * 2^e for n below 2^53 (infinite from 2^1024 on).
Finite(s, n, e) ==
    IF n = <<>> THEN Zero
    ELSE IF BitLen(n) + e > 1024 THEN Infinity(s)
    ELSE LET x == Strip(n, e) IN [kind |-> "finite", s |-> s, m |-> x.m, e |-> x.e]

\* The double nearest to s * (n + f) * 2^e, ties to the even mantissa, where
\* f is 0, or some fraction strictly between 0 and 1 when inexact holds
\* (n has then more than 53 bits). Below 2^-1022 the doubles are the
\* multiples of 2^-1074.
Round(s, n, e, inexact) ==
    LET d == Max(BitLen(n) - 53, (0 - 1074) - e)
    IN IF d <= 0 THEN Finite(s, n, e)
       ELSE LET q == Shr(n, d)
                c == CmpN(SubC(n, Shl(q, d), 0), Shl(<<1>>, d - 1))
                up == c > 0 \/ (c = 0 /\ (inexact \/ Low(q) % 2 = 1))
            IN Finite(s, IF up THEN AddC(q, <<>>, 1) ELSE q, e + d)

\* The number of the integer k.
Num(k) == IF k >= 0 THEN Finite(1, NatOf(k), 0) ELSE Finite(0 - 1, NatOf(0 - k), 0)

\* a * b (NaN is absorbing), as in `newCard.price * newCard.quantity`.
Mul(a, b) ==
    IF a.kind = "NaN" \/ b.kind = "NaN" THEN NaN
    ELSE IF a.kind = "Infinity" \/ b.kind = "Infinity"
    THEN (IF a = Zero \/ b = Zero THEN NaN ELSE Infinity(a.s * b.s))
    ELSE Round(a.s * b.s, MulN(a.m, b.m), a.e + b.e, FALSE)

\* a + b (NaN is absorbing), as in `totalPrice += ...`. An operand below a
\* quarter of the last binary digit of the other one changes nothing.
Add(a, b) ==
    IF a.kind = "NaN" \/ b.kind = "NaN" THEN NaN
    ELSE IF a.kind = "Infinity"
    THEN (IF b.kind = "Infinity" /\ b.s # a.s THEN NaN ELSE a)
    ELSE IF b.kind = "Infinity" THEN b
    ELSE IF b = Zero \/ (a # Zero /\ BitLen(a.m) + a.e > BitLen(b.m) + b.e + 56) THEN a
    ELSE IF a = Zero \/ BitLen(b.m) + b.e > BitLen(a.m) + a.e + 56 THEN b
    ELSE LET e == IF a.e <= b.e THEN a.e ELSE b.e
             x == Shl(a.m, a.e - e)
             y == Shl(b.m, b.e - e)
         IN IF a.s = b.s THEN Round(a.s, AddC(x, y, 0), e, FALSE)
            ELSE IF CmpN(x, y) >= 0 THEN Round(a.s, SubC(x, y, 0), e, FALSE)
            ELSE Round(b.s, SubC(y, x, 0), e, FALSE)

(* ------------------ StringToNumber (the coercion of `*`) --------------- *)
\* A character of a text is a one-character string; a character outside
\* ASCII, and the vertical tab, is written as its escape \uXXXX.
\* StrWhiteSpaceChar: the white space and the line terminators of
\* ECMAScript (TAB, LF, VT, FF, CR, SP, NBSP, the space separators, LS, PS
\* and the byte order mark).
WhiteSpace ==
    {" ", "\t", "\n", "\r", "\f", "\\u000B", "\\u00A0", "\\u1680", "\\u2000", "\\u2001",
     "\\u2002", "\\u2003", "\\u2004", "\\u2005", "\\u2006", "\\u2007", "\\u2008",
     "\\u2009", "\\u200A", "\\u2028", "\\u2029", "\\u202F", "\\u205F", "\\u3000",
     "\\uFEFF"}

RECURSIVE TrimStart(_)
TrimStart(t) == IF t # <<>> /\ Head(t) \in WhiteSpace THEN TrimStart(Tail(t)) ELSE t

RECURSIVE TrimEnd(_)
TrimEnd(t) ==
    IF t # <<>> /\ t[Len(t)] \in WhiteSpace THEN TrimEnd(SubSeq(t, 1, Len(t) - 1)) ELSE t

LowerDigits == <<"0", "1", "2", "3", "4", "5", "6", "7", "8", "9", "a", "b", "c", "d", "e", "f">>
UpperDigits == <<"0", "1", "2", "3", "4", "5", "6", "7", "8", "9", "A", "B", "C", "D", "E", "F">>

\* The value of the digit c, 16 when c is no digit.
DigitVal(c) ==
    IF \E v \in 1..16 : LowerDigits[v] = c \/ UpperDigits[v] = c
    THEN (CHOOSE v \in 1..16 : LowerDigits[v] = c \/ UpperDigits[v] = c) - 1
    ELSE 16

\* Every character of t is a digit of the radix.
AllDigits(t, radix) == \A j \in 1..Len(t) : DigitVal(t[j]) < radix

\* The natural number written by the digits t after the digits of acc.
RECURSIVE DigitsNat(_, _, _)
DigitsNat(t, radix, acc) ==
    IF t = <<>> THEN acc
    ELSE DigitsNat(Tail(t), radix, MulC(acc, radix, DigitVal(Head(t))))

\* The position of the first character of t that is in S, 0 when none is.
IndexOf(t, S) ==
    IF \E j \in 1..Len(t) : t[j] \in S
    THEN CHOOSE j \in 1..Len(t) : t[j] \in S /\ \A h \in 1..(j - 1) : t[h] \notin S
    ELSE 0

\* The decimal exponent written by the digits t, capped: beyond the cap
\* every double is 0 or infinite.
RECURSIVE ExponentOf(_, _)
ExponentOf(t, acc) ==
    IF t = <<>> THEN acc
    ELSE ExponentOf(Tail(t), IF acc >= 100000 THEN acc ELSE acc * 10 + DigitVal(Head(t)))

\* The double nearest to s * n * 10^d, where n has between atLeast and
\* atMost decimal digits after its first. A value of 10^309 or more is
\* infinite and one below 10^-324 is 0, whatever its digits.
FromDecimal(s, n, d) ==
    LET atLeast == ((BitLen(n) - 1) * 3) \div 10
        atMost == (BitLen(n) * 31) \div 100 + 1
    IN IF n = <<>> THEN Zero
       ELSE IF atLeast + d >= 309 THEN Infinity(s)
       ELSE IF atMost + d < 0 - 324 THEN Zero
       ELSE IF d >= 0 THEN Round(s, Mul10(n, d), 0, FALSE)
       ELSE LET k == Max(0, 64 + (10 * (0 - d)) \div 3 - BitLen(n))
                x == Div10(Shl(n, k), 0 - d)
            IN Round(s, x.q, 0 - k, x.inexact)

\* StrUnsignedDecimalLiteral: Infinity, or digits with an optional fraction
\* and an optional exponent part.
Decimal(s, t) ==
    LET ePos == IndexOf(t, {"e", "E"})
        mant == IF ePos = 0 THEN t ELSE SubSeq(t, 1, ePos - 1)
        expo == IF ePos = 0 THEN <<>> ELSE SubSeq(t, ePos + 1, Len(t))
        dot == IndexOf(mant, {"."})
        ip == IF dot = 0 THEN mant ELSE SubSeq(mant, 1, dot - 1)
        fp == IF dot = 0 THEN <<>> ELSE SubSeq(mant, dot + 1, Len(mant))
        signed == expo # <<>> /\ Head(expo) \in {"+", "-"}
        ed == IF signed THEN Tail(expo) ELSE expo
        x == ExponentOf(ed, 0)
        d == (IF signed /\ Head(expo) = "-" THEN 0 - x ELSE x) - Len(fp)
    IN IF t = <<"I", "n", "f", "i", "n", "i", "t", "y">> THEN Infinity(s)
       ELSE IF /\ AllDigits(ip, 10) /\ AllDigits(fp, 10) /\ ip \o fp # <<>>
               /\ ePos # 0 => (ed # <<>> /\ AllDigits(ed, 10))
       THEN FromDecimal(s, DigitsNat(ip \o fp, 10, <<>>), d)
       ELSE NaN

\* The radix of a literal that starts with 0x, 0o or 0b, 0 for any other text.
Radix(t) ==
    IF Len(t) < 2 \/ t[1] # "0" THEN 0
    ELSE IF t[2] \in {"x", "X"} THEN 16
    ELSE IF t[2] \in {"o", "O"} THEN 8
    ELSE IF t[2] \in {"b", "B"} THEN 2
    ELSE 0

\* StringToNumber of a column text: white space is trimmed; the empty text
\* is 0; a decimal literal with an optional sign, or an unsigned
\* hexadecimal, octal or binary literal, is the nearest double; any other
\* text is NaN.
StringToNumber(text) ==
    LET t == TrimEnd(TrimStart(text))
        r == Radix(t)
        digits == SubSeq(t, 3, Len(t))
    IN IF t = <<>> THEN Zero
       ELSE IF r # 0
       THEN (IF digits # <<>> /\ AllDigits(digits, r)
             THEN Round(1, DigitsNat(digits, r, <<>>), 0, FALSE)
             ELSE NaN)
       ELSE IF Head(t) = "-" THEN Decimal(0 - 1, Tail(t))
       ELSE IF Head(t) = "+" THEN Decimal(1, Tail(t))
       ELSE Decimal(1, t)

\* An optional JavaScript value: None is undefined, Some(v) is v.
None == <<>>
Some(v) == <<v>>

\* ToNumber of a column, the coercion `*` applies to its operands (lines 62
\* and 117): a column the row does not have is undefined and gives NaN, a
\* column text gives its StringToNumber.
ToNumber(column) == IF column = None THEN NaN ELSE StringToNumber(column[1])

\* row[9] * 100 (line 62) on the price column.
Times100(column) == Mul(ToNumber(column), Num(100))

(* ------------------------------ inputs --------------------------------- *)
\* A decoded CSV row: the columns the code reads, by their 0-based index.
\* A numeric column is Some(text), the text being the sequence of its
\* characters, so that the coercions of lines 62 and 117 read it character
\* by character. A column a short row does not have (relax_column_count,
\* line 49) is undefined: None for a numeric column, Undefined for another.
Row(finish, quantity, manaboxId, scryfallId, price) ==
    (4 :> finish @@ 6 :> quantity @@ 7 :> manaboxId @@ 8 :> scryfallId @@ 9 :> price)

\* The rows a source file is made of: a well-formed row (its price, 19.99,
\* is no binary fraction: row[9] * 100 is 1998.9999999999998), a row with
\* another lookup id and a negative quantity, and a row that repeats the
\* first lookup id and has a quantity that is no number.
RowSet ==
    { Row("foil",   Some(<<"3">>), "m1", "a", Some(<<"1", "9", ".", "9", "9">>)),
      Row("foil",   Some(<<"-", "2">>), "m2", "b", Some(<<"0", ".", "2", "5">>)),
      Row("normal", Some(<<"x">>), "m3", "a", Some(<<"1", ".", "0", "0">>)) }

\* A card object of the service's response (res.data.data[k]).
Meta(id, name, rarity, image_uris, card_faces) ==
    [id |-> id, name |-> name, set |-> "s", set_name |-> "sn", rarity |-> rarity,
     layout |-> "l", image_uris |-> image_uris, card_faces |-> card_faces]

\* An image_uris object {small, normal, large}, named by its tag.
Uris(tag) == [small |-> tag, normal |-> tag, large |-> tag]

\* A card face: an object carrying its own image_uris.
Face(tag) == [image_uris |-> Uris(tag)]

\* The card objects a response is made of: a unified image object, two
\* faces, one face, an id no row has, neither image form, a missing rarity.
MetaSet ==
    { Meta("a", "A", "common", Some(Uris("a")), None),
      Meta("b", "B", "rare", None, Some(<<Face("b0"), Face("b1")>>)),
      Meta("a", "A1", "common", None, Some(<<Face("a0")>>)),
      Meta("z", "Z", "rare", Some(Uris("z")), None),
      Meta("b", "B", "rare", None, None),
      Meta("b", "B", Undefined, Some(Uris("b")), None) }

\* All sequences over S of length at most n.
SeqUpTo(S, n) == UNION { [1..k -> S] : k \in 0..n }

(* --------------------------- readCsv (pure part) ----------------------- *)
\* The images of a record before enrichment: the property is absent.
NoImages == [front |-> None, back |-> None]

\* The record readCsv builds from one row (lines 57-63). idx is the row's
\* position in the file; it is not a field of the program's object, it names
\* the object (two rows with equal columns are two objects).
Normalize(row, k) ==
    [idx |-> k,
     foil |-> (row[4] # "normal"),
     quantity |-> row[6],
     manaboxId |-> row[7],
     scryfallId |-> row[8],
     price |-> Times100(row[9]),
     name |-> Undefined, setCode |-> Undefined, setName |-> Undefined,
     rarity |-> Undefined, layout |-> Undefined, images |-> NoImages]

(* --------------------------- processBatch (pure part) ------------------ *)
\* Mutant of Slice: the slice runs one record into the next one.
Slice_Overlap(recs, i) ==
    SubSeq(recs, i + 1,
           IF i + BATCH_SIZE + 1 < Len(recs) THEN i + BATCH_SIZE + 1 ELSE Len(recs))

\* records.slice(i, i + BATCH_SIZE) with a 0-based i (line 155).
Slice(recs, i) ==
    SubSeq(recs, i + 1, IF i + BATCH_SIZE < Len(recs) THEN i + BATCH_SIZE ELSE Len(recs))

\* The identifiers of the request, one per record, in order (lines 93-95).
Identifiers(batch) == [j \in 1..Len(batch) |-> batch[j].scryfallId]

\* records.find(o => o.scryfallId === id): the position of the first match,
\* 0 when there is none (find returns undefined) (line 111).
Find(batch, id) ==
    IF \E j \in 1..Len(batch) : batch[j].scryfallId = id
    THEN CHOOSE j \in 1..Len(batch) :
            /\ batch[j].scryfallId = id
            /\ \A h \in 1..(j - 1) : batch[h].scryfallId # id
    ELSE 0

\* Lines 118-141: TRUE when building the image set throws a TypeError
\* (card.card_faces is undefined, or has no first element).
ImagesThrow(card) ==
    /\ card.image_uris = None
    /\ \/ card.card_faces = None
       \/ Len(card.card_faces[1]) = 0

\* Mutant of Images: the second face is never copied to back.
Images_NoBack(card) ==
    IF card.image_uris # None
    THEN [front |-> card.image_uris, back |-> None]
    ELSE [front |-> Some(card.card_faces[1][1].image_uris), back |-> None]

\* Lines 118-141: the image set built from a card object that does not throw.
Images(card) ==
    IF card.image_uris # None
    THEN [front |-> card.image_uris, back |-> None]
    ELSE [front |-> Some(card.card_faces[1][1].image_uris),
          back |-> IF Len(card.card_faces[1]) > 1
                   THEN Some(card.card_faces[1][2].image_uris)
                   ELSE None]

\* Lines 112-116: the metadata fields copied onto the record.
CopyFields(rec, card) ==
    [rec EXCEPT !.name = card.name, !.setCode = card.set, !.setName = card.set_name,
                !.rarity = card.rarity, !.layout = card.layout]

\* The state of the loop of lines 110-143 before its first iteration: the
\* batch (objects shared with `records`), the positions pushed to `cards`,
\* the running totalPrice, and whether an iteration threw.
MergeStart(batch, price) ==
    [batch |-> batch, cards |-> <<>>, totalPrice |-> price, threw |-> FALSE]

\* Mutant of MergeOne: a card object without any image form is skipped
\* after its fields were copied, instead of throwing.
MergeOne_SkipNoImages(st, card) ==
    LET j == Find(st.batch, card.id) IN
    IF st.threw THEN st
    ELSE IF j = 0 THEN [st EXCEPT !.threw = TRUE]
    ELSE LET copied == CopyFields(st.batch[j], card)
             price == Add(st.totalPrice, Mul(copied.price, ToNumber(copied.quantity)))
         IN IF ImagesThrow(card)
            THEN [st EXCEPT !.batch[j] = copied, !.totalPrice = price]
            ELSE [st EXCEPT !.batch[j] = [copied EXCEPT !.images = Images(card)],
                            !.totalPrice = price,
                            !.cards = Append(@, j)]

\* Mutant of MergeOne: a card object whose id no record of the batch has is
\* skipped instead of throwing.
MergeOne_SkipUnknown(st, card) ==
    LET j == Find(st.batch, card.id) IN
    IF st.threw THEN st
    ELSE IF j = 0 THEN st
    ELSE LET copied == CopyFields(st.batch[j], card)
             price == Add(st.totalPrice, Mul(copied.price, ToNumber(copied.quantity)))
         IN IF ImagesThrow(card)
            THEN [st EXCEPT !.batch[j] = copied, !.totalPrice = price, !.threw = TRUE]
            ELSE [st EXCEPT !.batch[j] = [copied EXCEPT !.images = Images(card)],
                            !.totalPrice = price,
                            !.cards = Append(@, j)]

\* One iteration of the loop of lines 110-143 for one card object.
MergeOne(st, card) ==
    LET j == Find(st.batch, card.id) IN
    IF st.threw THEN st
    ELSE IF j = 0 THEN [st EXCEPT !.threw = TRUE]
    ELSE LET copied == CopyFields(st.batch[j], card)
             price == Add(st.totalPrice, Mul(copied.price, ToNumber(copied.quantity)))
         IN IF ImagesThrow(card)
            THEN [st EXCEPT !.batch[j] = copied, !.totalPrice = price, !.threw = TRUE]
            ELSE [st EXCEPT !.batch[j] = [copied EXCEPT !.images = Images(card)],
                            !.totalPrice = price,
                            !.cards = Append(@, j)]

\* The whole loop of lines 110-143 over the response, in response order.
RECURSIVE Merge(_, _)
Merge(st, resp) ==
    IF resp = <<>> THEN st ELSE Merge(MergeOne(st, Head(resp)), Tail(resp))

\* The array handed to saveCards (line 145): the objects `cards` refers to,
\* read after the loop has finished.
CardsOf(st) == [h \in 1..Len(st.cards) |-> st.batch[st.cards[h]]]

(* --------------------------- the schemas ------------------------------- *)
\* MagicCardSchema (lines 184-248): every required String is a non-empty
\* string, every required Number casts to a number (undefined is missing,
\* the empty text casts to null, any other text as ToNumber does, and NaN
\* is a cast error); images.front.small, images.front.normal and
\* images.front.large are required Strings (lines 222-235), the fields of
\* images.back are not required.
ValidCard(doc) ==
    /\ doc.name \notin {Undefined, ""}
    /\ doc.setCode \notin {Undefined, ""}
    /\ doc.setName \notin {Undefined, ""}
    /\ doc.rarity \notin {Undefined, ""}
    /\ doc.manaboxId \notin {Undefined, ""}
    /\ doc.scryfallId \notin {Undefined, ""}
    /\ doc.quantity \notin {None, Some(<<>>)} /\ ToNumber(doc.quantity) # NaN
    /\ doc.price # NaN
    /\ doc.images.front # None
    /\ doc.images.front[1].small \notin {Undefined, ""}
    /\ doc.images.front[1].normal \notin {Undefined, ""}
    /\ doc.images.front[1].large \notin {Undefined, ""}

\* MagicCollectionSchema (lines 168-181): total and value are required
\* Numbers; total is a count, value is NaN after a product with NaN.
ValidCollection(doc) == doc.value # NaN /\ doc.total \in Nat

(* ------------------------------ state ---------------------------------- *)
VARIABLES
    file,           \* the rows of CSV_FILE after the header line
    pc,             \* the await point the entry function is suspended at
    exiting,        \* the calls of exit suspended in db.disconnect() (line 26), by caller
    exitCode,       \* None while the process runs, Some(status) once it ended
    db,             \* the module variable db: "null", "connected", "disconnected"
    nread,          \* rows the parser has handed to the loop of line 56
    stream,         \* the read stream of line 42: "unopened", "open", "closed", "failed"
    records,        \* the array readCsv builds and processRecords walks
    i,              \* the loop variable of processRecords (line 154)
    cards,          \* the array handed to insertMany by the pending saveCards
    totalCards,     \* line 18
    totalPrice,     \* line 19
    magicCards,     \* the documents of the collection magicCards
    magicCollection,\* the documents of the collection magicCollection
    requests,       \* history: the identifier lists sent to the service
    inserts,        \* history: the arrays handed to insertMany
    insertsDone,    \* history: insertMany calls that have returned
    paces,          \* history: pacing timers that have fired
    saves,          \* history: calls of collection.save()
    batches,        \* history: the slices taken at line 155, as they were taken
    res,            \* res.data.data while saveCards is awaited (in scope in the try block only)
    errs,           \* history: the errors exit(err) was called with, in call order
    matched,        \* history: every response so far answered its request
    deletes,        \* history: the deleteMany calls and their returns (lines 251-252)
    disconnects     \* history: the db.disconnect() calls and how they settled (lines 26, 265)

vars == <<file, pc, exiting, exitCode, db, nread, stream, records, i, cards,
          totalCards, totalPrice, magicCards, magicCollection,
          requests, inserts, insertsDone, paces, saves, batches, res, errs, matched,
          deletes, disconnects>>

\* The error of the first call of exit (the one that aborted the run),
\* "none" while exit was not called.
err == IF errs = <<>> THEN "none" ELSE errs[1]

\* A card document left in magicCards by an earlier run.
StaleCard ==
    [Normalize(Row("normal", Some(<<"1">>), "m0", "a", Some(<<"0", ".", "5", "0">>)), 0)
        EXCEPT !.name = "stale"]

\* A summary document left in magicCollection by an earlier run.
StaleCollection == [value |-> Num(50), total |-> 1, updated |-> "earlier"]

Init ==
    /\ file \in SeqUpTo(RowSet, MaxRows)
    /\ pc = "connect"
    /\ exiting = {}
    /\ exitCode = None
    /\ db = "null"
    /\ nread = 0
    /\ stream = "unopened"
    /\ records = <<>>
    /\ i = 0
    /\ cards = <<>>
    /\ totalCards = 0
    /\ totalPrice = Zero
    /\ \/ magicCards = <<>> /\ magicCollection = <<>>
       \/ magicCards = <<StaleCard>> /\ magicCollection = <<StaleCollection>>
    /\ requests = <<>>
    /\ inserts = <<>>
    /\ insertsDone = 0
    /\ paces = 0
    /\ saves = 0
    /\ batches = <<>>
    /\ res = <<>>
    /\ errs = <<>>
    /\ matched = TRUE
    /\ deletes = <<>>
    /\ disconnects = <<>>

\* The process is still running.
Alive == exitCode = None

(* ------------------------------ exit(err) ------------------------------ *)
\* The callers of exit: the 'error' listener of the read stream (line 44,
\* not awaited), the catch of processBatch (line 149) and the catch of the
\* entry function (line 268).
Callers == {"stream", "batch", "main"}

\* exit(err) up to its first await (lines 21-27): with a connection it
\* calls db.disconnect() and suspends; without one it reaches
\* process.exit(1). The caller, when it awaits, is left suspended in
\* `await exit(err)`; e is the error exit logs (line 23); settled is how the
\* db.disconnect() whose rejection is e has settled, <<>> for any other e.
CallExit(newPc, e, caller, settled) ==
    /\ pc' = newPc
    /\ errs' = Append(errs, e)
    /\ IF db = "null"
       THEN /\ exiting' = exiting
            /\ exitCode' = Some(1)
            /\ disconnects' = disconnects \o settled
       ELSE /\ exiting' = exiting \cup {caller}
            /\ exitCode' = exitCode
            /\ disconnects' = (disconnects \o settled) \o <<"call">>

\* db.disconnect() of a suspended exit resolves, then process.exit(1)
\* (lines 26-29).
ExitDisconnected(caller) ==
    /\ Alive
    /\ caller \in exiting
    /\ db' = "disconnected"
    /\ exitCode' = Some(1)
    /\ disconnects' = Append(disconnects, "resolve")
    /\ UNCHANGED <<file, pc, exiting, nread, stream, records, i, cards,
                   totalCards, totalPrice, magicCards, magicCollection, requests,
                   inserts, insertsDone, paces, saves, batches, res, errs, matched,
                   deletes>>

\* db.disconnect() of a suspended exit rejects (line 26): exit throws before
\* process.exit(1). The rejection of the exit awaited at line 149 leaves
\* processBatch and processRecords and is caught at line 267, where exit is
\* called again (lines 21-26: db is still set, db.disconnect() is called a
\* second time). The rejection of the exit awaited at line 268, and of the
\* one line 44 does not await, is handled nowhere: the process ends with
\* status 1 and the connection is not released.
ExitRejected(caller) ==
    /\ Alive
    /\ caller \in exiting
    /\ IF caller = "batch"
       THEN /\ exiting' = (exiting \ {caller}) \cup {"main"}
            /\ errs' = Append(errs, "disconnect")
            /\ disconnects' = disconnects \o <<"reject", "call">>
            /\ exitCode' = exitCode
       ELSE /\ exiting' = exiting \ {caller}
            /\ errs' = errs
            /\ disconnects' = Append(disconnects, "reject")
            /\ exitCode' = Some(1)
    /\ UNCHANGED <<file, pc, db, nread, stream, records, i, cards, totalCards,
                   totalPrice, magicCards, magicCollection, requests, inserts,
                   insertsDone, paces, saves, batches, res, matched, deletes>>

(* ------------------------------ connectToDb ---------------------------- *)
\* Mutant of ConnectOk: connectToDb returns without emptying the collections.
ConnectOk_NoDelete ==
    /\ Alive /\ pc = "connect"
    /\ db' = "connected"
    /\ pc' = "readCsv"
    /\ stream' = "open"
    /\ UNCHANGED <<file, exiting, exitCode, nread, records, i, cards,
                   totalCards, totalPrice, magicCards, magicCollection, requests,
                   inserts, insertsDone, paces, saves, batches, res, errs, matched,
                   deletes, disconnects>>

\* mongoose.connect resolves (line 166); the models are built and
\* MagicCollection.deleteMany is called (line 251).
ConnectOk ==
    /\ Alive /\ pc = "connect"
    /\ db' = "connected"
    /\ pc' = "deleteCollection"
    /\ deletes' = Append(deletes, "magicCollection.call")
    /\ UNCHANGED <<file, exiting, exitCode, nread, stream, records, i, cards,
                   totalCards, totalPrice, magicCards, magicCollection, requests,
                   inserts, insertsDone, paces, saves, batches, res, errs, matched,
                   disconnects>>

\* Mutant of ConnectFail: exit logs the error and never reaches
\* process.exit(1).
ConnectFail_NoEnd ==
    /\ Alive /\ pc = "connect"
    /\ pc' = "exit"
    /\ errs' = Append(errs, "connect")
    /\ UNCHANGED <<file, exiting, exitCode, db, nread, stream, records, i, cards,
                   totalCards, totalPrice, magicCards, magicCollection, requests,
                   inserts, insertsDone, paces, saves, batches, res, matched,
                   deletes, disconnects>>

\* mongoose.connect rejects: db stays null, the catch of line 267 calls exit.
ConnectFail ==
    /\ Alive /\ pc = "connect"
    /\ CallExit("exit", "connect", "main", <<>>)
    /\ UNCHANGED <<file, db, nread, stream, records, i, cards, totalCards,
                   totalPrice, magicCards, magicCollection, requests, inserts,
                   insertsDone, paces, saves, batches, res, matched, deletes>>

\* MagicCollection.deleteMany({}) resolves (line 251); MagicCard.deleteMany
\* is called (line 252).
DeleteCollectionOk ==
    /\ Alive /\ pc = "deleteCollection"
    /\ magicCollection' = <<>>
    /\ pc' = "deleteCards"
    /\ deletes' = deletes \o <<"magicCollection.done", "magicCards.call">>
    /\ UNCHANGED <<file, exiting, exitCode, db, nread, stream, records, i, cards,
                   totalCards, totalPrice, magicCards, requests, inserts, insertsDone,
                   paces, saves, batches, res, errs, matched, disconnects>>

\* MagicCard.deleteMany({}) resolves (line 252); connectToDb returns and
\* readCsv creates the read stream, with its 'error' listener, and pipes it
\* into the parser (lines 41-54).
DeleteCardsOk ==
    /\ Alive /\ pc = "deleteCards"
    /\ magicCards' = <<>>
    /\ pc' = "readCsv"
    /\ stream' = "open"
    /\ deletes' = Append(deletes, "magicCards.done")
    /\ UNCHANGED <<file, exiting, exitCode, db, nread, records, i, cards,
                   totalCards, totalPrice, magicCollection, requests, inserts,
                   insertsDone, paces, saves, batches, res, errs, matched, disconnects>>

\* Either deleteMany rejects: the catch of line 267 calls exit.
DeleteFail ==
    /\ Alive /\ pc \in {"deleteCollection", "deleteCards"}
    /\ CallExit("exit", "delete", "main", <<>>)
    /\ UNCHANGED <<file, db, nread, stream, records, i, cards, totalCards,
                   totalPrice, magicCards, magicCollection, requests, inserts,
                   insertsDone, paces, saves, batches, res, matched, deletes>>

(* ------------------------------ readCsv -------------------------------- *)
\* One iteration of `for await (const row of parser)` (lines 56-65). Rows
\* the parser already holds are still delivered after a stream error.
ReadRow ==
    /\ Alive /\ pc = "readCsv"
    /\ nread < Len(file)
    /\ nread' = nread + 1
    /\ records' = Append(records, Normalize(file[nread + 1], nread + 1))
    /\ UNCHANGED <<file, pc, exiting, exitCode, db, stream, i, cards, totalCards,
                   totalPrice, magicCards, magicCollection, requests, inserts,
                   insertsDone, paces, saves, batches, res, errs, matched, deletes,
                   disconnects>>

\* The read stream emits 'error' (lines 43-45): the listener, attached for
\* the life of the stream, calls exit without awaiting it, wherever the
\* entry function is suspended. A failure to open or to read comes while
\* readCsv is in its loop: the parser is never ended, so the loop of line 56
\* stays suspended and readCsv never returns. A failure to close the file
\* comes after the parser has ended: the entry function goes on (or is
\* already suspended in a call of exit of its own) while this call of exit
\* is disconnecting.
ReadError ==
    /\ Alive
    /\ stream = "open"
    /\ stream' = "failed"
    /\ CallExit(pc, "read", "stream", <<>>)
    /\ UNCHANGED <<file, db, nread, records, i, cards, totalCards, totalPrice,
                   magicCards, magicCollection, requests, inserts, insertsDone, paces,
                   saves, batches, res, matched, deletes>>

\* The close of the file, issued when the read stream ended (line 42),
\* succeeds: no 'error' follows, the listener of line 43 is never called any
\* more. Like its failure, it comes after the parser has ended. A process
\* whose entry function has returned was kept alive by the pending close
\* only: with no call of exit pending it ends with status 0.
StreamClose ==
    /\ Alive
    /\ stream = "open"
    /\ pc # "readCsv"
    /\ stream' = "closed"
    /\ exitCode' = IF pc = "done" /\ exiting = {} THEN Some(0) ELSE exitCode
    /\ UNCHANGED <<file, pc, exiting, db, nread, records, i, cards, totalCards,
                   totalPrice, magicCards, magicCollection, requests, inserts,
                   insertsDone, paces, saves, batches, res, errs, matched, deletes,
                   disconnects>>

\* The parser rejects an ill-formed line: the loop of line 56 throws,
\* readCsv rejects and the catch of line 267 calls exit.
ParseError ==
    /\ Alive /\ pc = "readCsv"
    /\ stream = "open"
    /\ nread < Len(file)
    /\ CallExit("exit", "parse", "main", <<>>)
    /\ UNCHANGED <<file, db, nread, stream, records, i, cards, totalCards,
                   totalPrice, magicCards, magicCollection, requests, inserts,
                   insertsDone, paces, saves, batches, res, matched, deletes>>

\* The stream has delivered the whole file and the parser ends: readCsv
\* returns records (line 67) and processRecords starts its loop (line 154).
ReadEnd ==
    /\ Alive /\ pc = "readCsv"
    /\ stream = "open"
    /\ nread = Len(file)
    /\ pc' = "loop"
    /\ i' = 0
    /\ UNCHANGED <<file, exiting, exitCode, db, nread, stream, records, cards,
                   totalCards, totalPrice, magicCards, magicCollection, requests,
                   inserts, insertsDone, paces, saves, batches, res, errs, matched,
                   deletes, disconnects>>

(* --------------------------- the service ------------------------------- *)
\* How many elements of the sequence q satisfy q[h][f] = v.
Count(q, f, v) == Cardinality({h \in 1..Len(q) : q[h][f] = v})

\* The response answers the request of the batch: it holds a card object for
\* every identifier sent, none for an identifier not sent, and no more
\* objects for an identifier than the request names it.
Matched(batch, resp) ==
    /\ \A j \in 1..Len(batch) : Count(resp, "id", batch[j].scryfallId) >= 1
    /\ \A h \in 1..Len(resp) :
          /\ Count(batch, "scryfallId", resp[h].id) >= 1
          /\ Count(resp, "id", resp[h].id) <= Count(batch, "scryfallId", resp[h].id)

(* --------------------------- processRecords ---------------------------- *)
\* The batch the loop of line 154 is working on.
Batch == Slice(records, i)

\* `records` after the loop of lines 110-143 changed the objects of the batch.
WithBatch(recs, at, batch) ==
    [k \in 1..Len(recs) |->
        IF k > at /\ k <= at + Len(batch) THEN batch[k - at] ELSE recs[k]]

\* The loop condition holds (line 154): the slice is taken, processBatch
\* builds the identifiers and issues the request (lines 93-108).
LoopBatch ==
    /\ Alive /\ pc = "loop"
    /\ i < Len(records)
    /\ batches' = Append(batches, Batch)
    /\ requests' = Append(requests, Identifiers(Batch))
    /\ pc' = "axios"
    /\ UNCHANGED <<file, exiting, exitCode, db, nread, stream, records, i, cards,
                   totalCards, totalPrice, magicCards, magicCollection, inserts,
                   insertsDone, paces, saves, res, errs, matched, deletes, disconnects>>

\* Mutant of AxiosFail: the error is logged and the batch skipped.
AxiosFail_Skip ==
    /\ Alive /\ pc = "axios"
    /\ errs' = Append(errs, "axios")
    /\ pc' = "pacing"
    /\ UNCHANGED <<file, exiting, exitCode, db, nread, stream, records, i, cards,
                   totalCards, totalPrice, magicCards, magicCollection, requests,
                   inserts, insertsDone, paces, saves, batches, res, matched, deletes,
                   disconnects>>

\* The request rejects (transport error or non-2xx status): the catch of
\* line 148 calls exit.
AxiosFail ==
    /\ Alive /\ pc = "axios"
    /\ CallExit("exit", "axios", "batch", <<>>)
    /\ UNCHANGED <<file, db, nread, stream, records, i, cards, totalCards,
                   totalPrice, magicCards, magicCollection, requests, inserts,
                   insertsDone, paces, saves, batches, res, matched, deletes>>

\* The request resolves with res.data.data = resp, any list of card
\* objects: the loop of lines 110-143 runs over it; if it throws the catch of
\* line 148 calls exit, otherwise saveCards hands cards to insertMany
\* (lines 145, 73).
AxiosOk(resp) ==
    /\ Alive /\ pc = "axios"
    /\ matched' = (matched /\ Matched(Batch, resp))
    /\ LET st == Merge(MergeStart(Batch, totalPrice), resp) IN
       /\ records' = WithBatch(records, i, st.batch)
       /\ totalPrice' = st.totalPrice
       /\ IF st.threw
          THEN /\ CallExit("exit", "merge", "batch", <<>>)
               /\ UNCHANGED <<cards, inserts, res>>
          ELSE /\ pc' = "insertMany"
               /\ res' = resp
               /\ cards' = CardsOf(st)
               /\ inserts' = Append(inserts, CardsOf(st))
               /\ UNCHANGED <<exiting, exitCode, errs, disconnects>>
    /\ UNCHANGED <<file, db, nread, stream, i, totalCards, magicCards,
                   magicCollection, requests, insertsDone, paces, saves, batches,
                   deletes>>

\* Mutant of InsertOk: the loop steps without the pacing timer.
InsertOk_NoPace ==
    /\ Alive /\ pc = "insertMany"
    /\ \A h \in 1..Len(cards) : ValidCard(cards[h])
    /\ magicCards' = magicCards \o cards
    /\ insertsDone' = insertsDone + 1
    /\ totalCards' = totalCards + Len(Batch)
    /\ i' = i + BATCH_SIZE
    /\ pc' = "loop"
    /\ res' = <<>>
    /\ UNCHANGED <<file, exiting, exitCode, db, nread, stream, records, cards,
                   totalPrice, magicCollection, requests, inserts, paces, saves,
                   batches, errs, matched, deletes, disconnects>>

\* insertMany resolves (line 73): every document passed validation and is
\* stored; processBatch returns records.length (line 147), processRecords
\* adds it to totalCards and starts the pacing timer (lines 157-158).
InsertOk ==
    /\ Alive /\ pc = "insertMany"
    /\ \A h \in 1..Len(cards) : ValidCard(cards[h])
    /\ magicCards' = magicCards \o cards
    /\ insertsDone' = insertsDone + 1
    /\ totalCards' = totalCards + Len(Batch)
    /\ pc' = "pacing"
    /\ res' = <<>>
    /\ UNCHANGED <<file, exiting, exitCode, db, nread, stream, records, i, cards,
                   totalPrice, magicCollection, requests, inserts, paces, saves,
                   batches, errs, matched, deletes, disconnects>>

\* insertMany rejects: a validation error stores nothing; a store error of
\* the ordered insert leaves the first k documents stored. The catch of
\* line 148 calls exit.
InsertFail(k) ==
    /\ Alive /\ pc = "insertMany"
    /\ k \in 0..Len(cards)
    /\ k = 0 \/ \A h \in 1..Len(cards) : ValidCard(cards[h])
    /\ magicCards' = magicCards \o SubSeq(cards, 1, k)
    /\ CallExit("exit", "insert", "batch", <<>>)
    /\ res' = <<>>
    /\ UNCHANGED <<file, db, nread, stream, records, i, cards, totalCards,
                   totalPrice, magicCollection, requests, inserts, insertsDone, paces,
                   saves, batches, matched, deletes>>

\* The timer of line 158 fires after SCRYFALL_TIME_LIMIT; the loop steps
\* (i += BATCH_SIZE).
PaceElapsed ==
    /\ Alive /\ pc = "pacing"
    /\ paces' = paces + 1
    /\ i' = i + BATCH_SIZE
    /\ pc' = "loop"
    /\ UNCHANGED <<file, exiting, exitCode, db, nread, stream, records, cards,
                   totalCards, totalPrice, magicCards, magicCollection, requests,
                   inserts, insertsDone, saves, batches, res, errs, matched, deletes,
                   disconnects>>

(* --------------------------- saveCollection ---------------------------- *)
\* The document saveCollection builds from the totals (lines 79-83);
\* `updated` is new Date(), later than the date of any earlier run.
Collection == [value |-> totalPrice, total |-> totalCards, updated |-> "now"]

\* Mutant of LoopEnd: the summary is saved at any loop head.
LoopEnd_Early ==
    /\ Alive /\ pc = "loop"
    /\ saves' = saves + 1
    /\ pc' = "save"
    /\ UNCHANGED <<file, exiting, exitCode, db, nread, stream, records, i, cards,
                   totalCards, totalPrice, magicCards, magicCollection, requests,
                   inserts, insertsDone, paces, batches, res, errs, matched, deletes,
                   disconnects>>

\* Mutant of LoopEnd: no summary is saved when there are no records.
LoopEnd_SkipEmpty ==
    /\ Alive /\ pc = "loop"
    /\ i >= Len(records)
    /\ IF Len(records) = 0
       THEN /\ saves' = saves
            /\ pc' = "disconnect"
            /\ disconnects' = Append(disconnects, "call")
       ELSE /\ saves' = saves + 1
            /\ pc' = "save"
            /\ disconnects' = disconnects
    /\ UNCHANGED <<file, exiting, exitCode, db, nread, stream, records, i, cards,
                   totalCards, totalPrice, magicCards, magicCollection, requests,
                   inserts, insertsDone, paces, batches, res, errs, matched, deletes>>

\* The loop condition fails (line 154): saveCollection builds the summary
\* and calls collection.save() (lines 160-162, 79-84).
LoopEnd ==
    /\ Alive /\ pc = "loop"
    /\ i >= Len(records)
    /\ saves' = saves + 1
    /\ pc' = "save"
    /\ UNCHANGED <<file, exiting, exitCode, db, nread, stream, records, i, cards,
                   totalCards, totalPrice, magicCards, magicCollection, requests,
                   inserts, insertsDone, paces, batches, res, errs, matched, deletes,
                   disconnects>>

\* collection.save() resolves (line 84): the summary is stored; the entry
\* function calls db.disconnect() (lines 264-265).
SaveOk ==
    /\ Alive /\ pc = "save"
    /\ ValidCollection(Collection)
    /\ magicCollection' = Append(magicCollection, Collection)
    /\ pc' = "disconnect"
    /\ disconnects' = Append(disconnects, "call")
    /\ UNCHANGED <<file, exiting, exitCode, db, nread, stream, records, i, cards,
                   totalCards, totalPrice, magicCards, requests, inserts, insertsDone,
                   paces, saves, batches, res, errs, matched, deletes>>

\* collection.save() rejects: nothing is stored, the catch of line 267
\* calls exit.
SaveFail ==
    /\ Alive /\ pc = "save"
    /\ CallExit("exit", "save", "main", <<>>)
    /\ UNCHANGED <<file, db, nread, stream, records, i, cards, totalCards,
                   totalPrice, magicCards, magicCollection, requests, inserts,
                   insertsDone, paces, saves, batches, res, matched, deletes>>

\* db.disconnect() of line 265 resolves: the entry function returns. The
\* process then ends with status 0, unless something is still pending: a
\* call of exit by the listener of line 43 suspended in its db.disconnect(),
\* or the close of the read stream, which may still fail and call exit.
DisconnectOk ==
    /\ Alive /\ pc = "disconnect"
    /\ db' = "disconnected"
    /\ pc' = "done"
    /\ exitCode' = IF exiting = {} /\ stream # "open" THEN Some(0) ELSE exitCode
    /\ disconnects' = Append(disconnects, "resolve")
    /\ UNCHANGED <<file, exiting, nread, stream, records, i, cards, totalCards,
                   totalPrice, magicCards, magicCollection, requests, inserts,
                   insertsDone, paces, saves, batches, res, errs, matched, deletes>>

\* db.disconnect() of line 265 rejects: the call is inside the try block, so
\* the catch of line 267 calls exit, after the cards and the summary were
\* stored.
DisconnectFail ==
    /\ Alive /\ pc = "disconnect"
    /\ CallExit("exit", "disconnect", "main", <<"reject">>)
    /\ UNCHANGED <<file, db, nread, stream, records, i, cards, totalCards,
                   totalPrice, magicCards, magicCollection, requests, inserts,
                   insertsDone, paces, saves, batches, res, matched, deletes>>

(* --------------------------- specification ----------------------------- *)
Next ==
    \/ \E caller \in Callers : ExitDisconnected(caller)
    \/ \E caller \in Callers : ExitRejected(caller)
    \/ ReadError
    \/ StreamClose
    \/ ConnectOk
    \/ ConnectFail
    \/ DeleteCollectionOk
    \/ DeleteCardsOk
    \/ DeleteFail
    \/ ParseError
    \/ ReadEnd
    \/ ReadRow
    \/ LoopBatch
    \/ AxiosFail
    \/ \E resp \in SeqUpTo(MetaSet, MaxResp) : AxiosOk(resp)
    \/ \E k \in 0..BATCH_SIZE : InsertFail(k)
    \/ InsertOk
    \/ PaceElapsed
    \/ LoopEnd
    \/ SaveFail
    \/ SaveOk
    \/ DisconnectOk
    \/ DisconnectFail

Spec == Init /\ [][Next]_vars

\* The scheduling of a run in which every pending call settles: an enabled
\* step of the single flow of control is eventually taken.
FairSpec == Spec /\ WF_vars(Next)

TypeOK ==
    /\ pc \in {"connect", "deleteCollection", "deleteCards", "readCsv", "loop", "axios",
               "insertMany", "pacing", "save", "disconnect", "done", "exit"}
    /\ exiting \subseteq Callers
    /\ exitCode \in {None, Some(0), Some(1)}
    /\ db \in {"null", "connected", "disconnected"}
    /\ totalCards \in Nat
    /\ stream \in {"unopened", "open", "closed", "failed"}
    /\ totalPrice.kind \in {"finite", "Infinity", "NaN"}
    /\ \A h \in 1..Len(errs) : errs[h] \in {"connect", "delete", "read", "parse", "axios",
                                            "merge", "insert", "save", "disconnect"}
    /\ \A h \in 1..Len(disconnects) : disconnects[h] \in {"call", "resolve", "reject"}

(* ------------------------- auxiliary definitions ----------------------- *)
\* The concatenation of a sequence of sequences.
RECURSIVE Flatten(_)
Flatten(q) == IF q = <<>> THEN <<>> ELSE Head(q) \o Flatten(Tail(q))

\* ceil(n / b) for n >= 0, b >= 1, from its defining inequalities.
Ceil(n, b) == CHOOSE c \in 0..n : c * b >= n /\ (c - 1) * b < n

\* The positions of the batch whose identifier no card object of resp carries.
Absent(batch, resp) ==
    {j \in 1..Len(batch) : \A h \in 1..Len(resp) : resp[h].id # batch[j].scryfallId}

\* The record at position j of the batch is in the array handed to insertMany.
Handed(batch, j, list) == \E h \in 1..Len(list) : list[h].idx = batch[j].idx

\* acc plus price * quantity of every card document of the list, added one
\* after the other in list order, as line 117 accumulates (the sum of
\* doubles depends on the order).
RECURSIVE Sum(_, _)
Sum(acc, list) ==
    IF list = <<>> THEN acc
    ELSE Sum(Add(acc, Mul(Head(list).price, ToNumber(Head(list).quantity))), Tail(list))

\* The real number s * n * 2^e, not rounded: a number record whose mantissa
\* may have more than 53 bits.
Real(s, n, e) ==
    IF n = <<>> THEN Zero
    ELSE LET x == Strip(n, e) IN [kind |-> "finite", s |-> s, m |-> x.m, e |-> x.e]

\* a * b in the reals, for finite a and b.
RealMul(a, b) == Real(a.s * b.s, MulN(a.m, b.m), a.e + b.e)

\* a + b in the reals, for finite a and b.
RealAdd(a, b) ==
    LET e == IF a.e <= b.e THEN a.e ELSE b.e
        x == Shl(a.m, a.e - e)
        y == Shl(b.m, b.e - e)
    IN IF a.s = b.s THEN Real(a.s, AddC(x, y, 0), e)
       ELSE IF CmpN(x, y) >= 0 THEN Real(a.s, SubC(x, y, 0), e)
       ELSE Real(b.s, SubC(y, x, 0), e)

\* The exact sum of price * quantity over a list of card documents, NaN
\* when a price or a quantity is no finite number.
RECURSIVE Value(_)
Value(list) ==
    IF list = <<>> THEN Zero
    ELSE LET price == Head(list).price
             quantity == ToNumber(Head(list).quantity)
             rest == Value(Tail(list))
         IN IF price.kind = "finite" /\ quantity.kind = "finite" /\ rest.kind = "finite"
            THEN RealAdd(RealMul(price, quantity), rest)
            ELSE NaN

\* exit has been called with the error e.
Called(e) == \E h \in 1..Len(errs) : errs[h] = e

\* A db.disconnect() call of the run has rejected.
DisconnectRejected == \E h \in 1..Len(disconnects) : disconnects[h] = "reject"

\* a < b on numbers, as the JavaScript operator: false when either is NaN.
Less(a, b) ==
    /\ a.kind # "NaN" /\ b.kind # "NaN"
    /\ a # b
    /\ LET d == Add(b, IF a = Zero THEN a ELSE [a EXCEPT !.s = 0 - a.s])
       IN d.s = 1 /\ d # Zero

\* The summary documents written by this run.
Summaries == SelectSeq(magicCollection, LAMBDA d : d.updated = "now")

\* The loop of processRecords has run to its end (line 160 was reached).
LoopDone == saves > 0

(* ------------------------------- C1 ------------------------------------ *)
\* C1: the slices taken so far, concatenated, are the records readCsv built
\* from the first rows of the file, in file order (so no record is in two
\* slices); every slice holds
\* BATCH_SIZE records except possibly the last one; and once the loop has
\* run to its end there are ceil(N / BATCH_SIZE) slices covering all N records.
C1_Batches ==
    /\ \A k \in 1..Len(Flatten(batches)) :
          /\ Flatten(batches)[k].idx = k
          /\ Flatten(batches)[k].manaboxId = file[k][7]
    /\ \A b \in 1..Len(batches) :
          /\ Len(batches[b]) \in 1..BATCH_SIZE
          /\ b < Len(batches) => Len(batches[b]) = BATCH_SIZE
    /\ LoopDone =>
          /\ Len(Flatten(batches)) = Len(file)
          /\ Len(batches) = Ceil(Len(file), BATCH_SIZE)

\* A finished loop over a file cut into a full slice and a shorter last one.
C1_Witness ==
    /\ LoopDone
    /\ Len(batches) = 2
    /\ Len(batches[1]) = BATCH_SIZE
    /\ Len(batches[2]) < BATCH_SIZE

(* ------------------------------- C2 ------------------------------------ *)
\* C2: when insertMany is called for a batch whose every identifier has a
\* card object in the response, every record of the batch carries its image
\* set and is in the array handed to insertMany.
C2_AllPresentAllHanded ==
    (pc = "insertMany" /\ Absent(Batch, res) = {}) =>
        \A j \in 1..Len(Batch) :
            /\ Batch[j].images.front # None
            /\ Handed(Batch, j, cards)

(* ------------------------------- C3 ------------------------------------ *)
\* C3: for a batch with exactly one record whose identifier is absent from
\* the response, the merge adds the value of the other records only to
\* totalPrice, the array handed to insertMany holds the other records and
\* not that one, and the batch adds one less than its length to totalCards.
C3_AbsentExcluded ==
    [][ /\ (pc = "axios" /\ pc' = "insertMany" /\ Cardinality(Absent(Batch, res')) = 1) =>
            /\ \A j \in 1..Len(Batch) : (j \notin Absent(Batch, res')) <=> Handed(Batch, j, cards')
            /\ totalPrice' = Sum(totalPrice, cards')
        /\ (pc = "insertMany" /\ pc' = "pacing" /\ Cardinality(Absent(Batch, res)) = 1) =>
            totalCards' = totalCards + Len(Batch) - 1
      ]_vars

(* ------------------------------- C4 ------------------------------------ *)
\* C4: a run that ended with status 0 and in which every response answered
\* its request has stored exactly one card per row of the file and exactly
\* one summary, whose total is the number of rows.
C4_OneCardPerRow ==
    (exitCode = Some(0) /\ matched) =>
        /\ Len(magicCards) = Len(file)
        /\ \A k \in 1..Len(file) : Count(magicCards, "idx", k) = 1
        /\ Len(Summaries) = 1
        /\ Summaries[1].total = Len(file)

(* ------------------------------- C5 ------------------------------------ *)
\* C5: once the request of a batch has failed, every earlier batch and no
\* other has been handed to insertMany, every stored card is a record of an
\* earlier batch (none at all when the first request failed), no summary is
\* saved or stored and the process never ends with status 0; and from then
\* on no request, no insertMany, no save and no change of either collection
\* happens.
C5_EnrichmentFailureIsFatal ==
    /\ [](Called("axios") =>
            /\ pc = "exit"
            /\ Len(inserts) = Len(requests) - 1
            /\ insertsDone = Len(inserts)
            /\ \A h \in 1..Len(magicCards) : magicCards[h].idx \in 1..i
            /\ Len(requests) = 1 => magicCards = <<>>
            /\ saves = 0
            /\ magicCollection = <<>>
            /\ exitCode \in {None, Some(1)})
    /\ [][Called("axios") =>
            UNCHANGED <<requests, inserts, magicCards, magicCollection, saves>>]_vars

\* The request of the second batch failed after the first batch was stored,
\* and the process has ended.
C5_Witness ==
    /\ err = "axios"
    /\ Len(requests) = 2
    /\ magicCards # <<>>
    /\ exitCode = Some(1)

(* ------------------------------- C6 ------------------------------------ *)
\* A component of the run has failed: exit was first called with the error of
\* the connection, a deleteMany, the file, the parser, the service, the
\* merge, insertMany or the save (and not with the one of the db.disconnect()
\* that follows a saved summary).
Failed == err \notin {"none", "disconnect"}

\* C6, read in favour of the code where its words leave room: once a
\* component has failed, the process never ends with status 0; when it
\* ends, db.disconnect() has been called if there was a connection, and the
\* connection is released unless a db.disconnect() call rejected; no summary
\* of this run is stored; collection.save() has been called only if the
\* failure is the one of that call, and it is never called after the
\* failure.
C6_AbortWritesNoSummary ==
    /\ [](Failed =>
            /\ exitCode # Some(0)
            /\ exitCode = Some(1) =>
                  /\ db = "null" \/ disconnects # <<>>
                  /\ db = "connected" => DisconnectRejected
            /\ Summaries = <<>>
            /\ saves = 0 \/ err = "save")
    /\ [][Failed => UNCHANGED <<saves, magicCollection>>]_vars

(* ------------------------------- C7 ------------------------------------ *)
\* C7: collection.save() is called at most once and only when insertMany
\* has returned for every one of the ceil(N / BATCH_SIZE) batches; at most
\* one summary is stored; a run without any error that has released its
\* connection has stored exactly one summary and does not end with status 1,
\* and it has ended with status 0 as soon as the read stream is closed too;
\* a process that ended with status 0 had no error, is disconnected and has
\* stored exactly one summary; and once the summary is stored, the
\* collection of summaries never changes.
C7_SummaryOnceAtEnd ==
    /\ [](/\ saves <= 1
          /\ Len(Summaries) <= saves
          /\ saves > 0 =>
                /\ nread = Len(file)
                /\ Len(requests) = Ceil(Len(file), BATCH_SIZE)
                /\ insertsDone = Len(requests)
          /\ (err = "none" /\ db = "disconnected") =>
                /\ Len(Summaries) = 1
                /\ exitCode # Some(1)
                /\ stream = "closed" => exitCode = Some(0)
          /\ exitCode = Some(0) =>
                /\ err = "none"
                /\ db = "disconnected"
                /\ Len(Summaries) = 1)
    /\ [][Summaries # <<>> => magicCollection' = magicCollection]_vars

\* A run of two batches ended with status 0 and one stored summary.
C7_Witness ==
    /\ exitCode = Some(0)
    /\ insertsDone = 2
    /\ Len(Summaries) = 1

(* ------------------------------- C8 ------------------------------------ *)
\* C8: from the moment saveCollection reads the totals, totalPrice is the
\* exact sum of price * quantity over the card documents stored in the run,
\* and so is the value of the stored summary.
C8_TotalValue ==
    /\ saves > 0 => totalPrice = Value(magicCards)
    /\ \A h \in 1..Len(Summaries) : Summaries[h].value = Value(magicCards)

(* ------------------------------- C9 ------------------------------------ *)
\* A row whose quantity or price column is not a number.
Malformed(row) == ToNumber(row[6]) = NaN \/ Times100(row[9]) = NaN

\* C9: once readCsv has read a row with a malformed numeric column, no
\* request is ever issued, no card and no summary is stored, and the process
\* does not end with status 0.
C9_MalformedAborts ==
    (\E k \in 1..nread : Malformed(file[k])) =>
        /\ requests = <<>>
        /\ pc \in {"readCsv", "exit"}
        /\ saves = 0
        /\ exitCode # Some(0)

(* ------------------------------- C10 ----------------------------------- *)
\* C10: at most one request is without its insertMany call; a pacing timer
\* fires only after the insertMany of its batch has returned; a request is
\* issued only when every earlier batch has had its insertMany return and
\* its pacing timer fire, and when totalCards counts every earlier batch.
C10_Sequential ==
    /\ Len(inserts) <= Len(requests)
    /\ Len(requests) <= Len(inserts) + 1
    /\ Len(requests) <= insertsDone + 1
    /\ Len(requests) <= paces + 1
    /\ paces <= insertsDone
    /\ pc = "axios" =>
          /\ insertsDone = Len(requests) - 1
          /\ paces = Len(requests) - 1
          /\ totalCards = Len(Flatten(SubSeq(batches, 1, Len(requests) - 1)))

\* The request of the second batch is outstanding.
C10_Witness ==
    /\ pc = "axios"
    /\ Len(requests) = 2
    /\ paces = 1

(* ------------------------------- C11 ----------------------------------- *)
\* The record carries every post-enrichment field.
Enriched(rec) ==
    /\ rec.name # Undefined
    /\ rec.setCode # Undefined
    /\ rec.setName # Undefined
    /\ rec.rarity # Undefined
    /\ rec.layout # Undefined
    /\ rec.images.front # None

\* C11: every record of every array handed to insertMany carries all the
\* post-enrichment fields.
C11_HandedRecordsEnriched ==
    \A b \in 1..Len(inserts) : \A h \in 1..Len(inserts[b]) : Enriched(inserts[b][h])

(* ------------------------------- C12 ----------------------------------- *)
\* The card object at position h of the response is the last one of the
\* response for its record (its image set is the one the record keeps).
LastFor(resp, h) == \A g \in (h + 1)..Len(resp) : resp[g].id # resp[h].id

\* C12: when insertMany is called, the h-th record of cards was built from
\* the h-th card object of the response, and its image set is: front from
\* image_uris and no back for a unified image object; front from the first
\* face and back from the second for two faces; front from the face and no
\* back for one face.
C12_ImageSet ==
    pc = "insertMany" =>
        /\ Len(cards) = Len(res)
        /\ \A h \in 1..Len(res) : LastFor(res, h) =>
              LET card == res[h]
                  images == cards[h].images
              IN /\ card.image_uris # None =>
                        (images.front = card.image_uris /\ images.back = None)
                 /\ (card.image_uris = None /\ Len(card.card_faces[1]) = 2) =>
                        /\ images.front = Some(card.card_faces[1][1].image_uris)
                        /\ images.back = Some(card.card_faces[1][2].image_uris)
                 /\ (card.image_uris = None /\ Len(card.card_faces[1]) = 1) =>
                        /\ images.front = Some(card.card_faces[1][1].image_uris)
                        /\ images.back = None

\* insertMany is called with a record built from two faces and a record
\* built from one face.
C12_Witness ==
    /\ pc = "insertMany"
    /\ \E h \in 1..Len(cards) : cards[h].images.back # None
    /\ \E h \in 1..Len(res) :
          /\ res[h].image_uris = None
          /\ Len(res[h].card_faces[1]) = 1
          /\ cards[h].images.back = None

(* ------------------------------- C13 ----------------------------------- *)
\* The card object has neither a unified image object nor any card face.
NoImageForm(card) ==
    /\ card.image_uris = None
    /\ card.card_faces = None \/ Len(card.card_faces[1]) = 0

\* C13: insertMany is only ever called after a response that holds no card
\* object with neither image form: every other outcome of a request is a
\* call of exit by processBatch that hands nothing to insertMany and stores
\* nothing; and after a merge error no request, no insertMany, no save and
\* no change of the collections follows, and the process does not end with
\* status 0.
C13_NoImageFormAborts ==
    /\ [](pc = "insertMany" => \A h \in 1..Len(res) : ~NoImageForm(res[h]))
    /\ [][(pc = "axios" /\ pc' # pc) =>
            \/ pc' = "insertMany" /\ errs' = errs
            \/ /\ pc' = "exit"
               /\ Len(errs') = Len(errs) + 1
               /\ errs'[Len(errs')] \in {"axios", "merge"}
               /\ inserts' = inserts
               /\ magicCards' = magicCards]_vars
    /\ [](Called("merge") =>
            /\ pc = "exit"
            /\ Len(inserts) = Len(requests) - 1
            /\ saves = 0
            /\ Summaries = <<>>
            /\ exitCode \in {None, Some(1)})
    /\ [][Called("merge") =>
            UNCHANGED <<requests, inserts, magicCards, magicCollection, saves>>]_vars

\* The process ended with status 1 after a merge that enriched one record of
\* the batch and threw while building the image set of another.
C13_Witness ==
    /\ err = "merge"
    /\ exitCode = Some(1)
    /\ inserts = <<>>
    /\ \E k \in 1..Len(records) : records[k].images.front # None
    /\ \E k \in 1..Len(records) :
          records[k].name # Undefined /\ records[k].images.front = None

(* ------------------------------- C14 ----------------------------------- *)
\* How many times the event e is in the history of the deleteMany calls.
Times(e) == Cardinality({h \in 1..Len(deletes) : deletes[h] = e})

\* The history of a connectToDb that emptied both collections.
BothDeleted ==
    <<"magicCollection.call", "magicCollection.done", "magicCards.call", "magicCards.done">>

\* C14 as claimed: a process that has ended has called deleteMany exactly
\* once on each collection; both calls have returned before the first
\* request, the first insertMany and the save; insertMany is called at most
\* once per batch and save at most once.
C14_DeletesExactlyOnce ==
    /\ exitCode # None =>
          /\ Times("magicCollection.call") = 1
          /\ Times("magicCards.call") = 1
    /\ (requests # <<>> \/ inserts # <<>> \/ saves > 0) => deletes = BothDeleted
    /\ Len(inserts) <= Len(batches)
    /\ saves <= 1

\* C14 as amended: deleteMany is called at most once on each collection,
\* and exactly once on each, both calls having returned, before the first
\* request, the first insertMany and the save; insertMany is called at most
\* once per batch, once for every batch when the loop has run to its end,
\* and save at most once.
C14_DeletesOnceBeforeWrites ==
    /\ Times("magicCollection.call") <= 1
    /\ Times("magicCards.call") <= 1
    /\ (requests # <<>> \/ inserts # <<>> \/ saves > 0) => deletes = BothDeleted
    /\ Len(inserts) <= Len(batches)
    /\ LoopDone => Len(inserts) = Ceil(Len(file), BATCH_SIZE)
    /\ saves <= 1

\* Both deleteMany calls have returned, two batches were handed to
\* insertMany, the summary was saved and no stored card is of an earlier run.
C14_Witness ==
    /\ deletes = BothDeleted
    /\ Len(inserts) = 2
    /\ saves = 1
    /\ \A h \in 1..Len(magicCards) : magicCards[h] # StaleCard

(* ------------------------------- C15 ----------------------------------- *)
\* C15: once exit has been called with an error, no request, no insertMany
\* and no save follows and the process never ends with status 0; a process
\* that ended with status 0 never had an error; and once the process has
\* ended, nothing changes any more.
C15_TerminalStates ==
    /\ [][err # "none" => UNCHANGED <<requests, inserts, saves, err>>]_vars
    /\ [](err # "none" => exitCode # Some(0))
    /\ [](exitCode = Some(0) => (err = "none" /\ exiting = {}))
    /\ [][exitCode # None => UNCHANGED vars]_vars

(* ------------------------------- C16 ----------------------------------- *)
\* C16: when every pending call settles (resolves or rejects), the process
\* eventually ends, with status 0 or with status 1, and never changes its
\* status afterwards.
C16_Terminates ==
    /\ <>(exitCode \in {Some(0), Some(1)})
    /\ [][exitCode # None => exitCode' = exitCode]_vars

\* A process that ended with status 1 while its entry function was still
\* suspended in the loop of readCsv.
C16_Witness ==
    /\ exitCode = Some(1)
    /\ pc = "readCsv"
    /\ db = "disconnected"

(* ------------------------------- C17 ----------------------------------- *)
\* C17: no step makes totalCards or totalPrice smaller, and saveCollection
\* reads them at most once.
C17_TotalsMonotonic ==
    /\ [][~(totalCards' < totalCards) /\ ~Less(totalPrice', totalPrice)]_vars
    /\ [](saves <= 1)

(* ------------------------------- C18 ----------------------------------- *)
\* The id of the card object is the scryfallId of no record of the batch.
Unknown(batch, card) == \A j \in 1..Len(batch) : batch[j].scryfallId # card.id

\* C18: insertMany is only ever called after a response in which every
\* card object has the id of a record of the batch: the request of a
\* response with an unknown id ends in a call of exit, with cards, the
\* insertMany calls and the stored cards as they were; after it the process
\* does not end with status 0 and no save follows.
C18_UnknownIdAborts ==
    /\ [](pc = "insertMany" => \A h \in 1..Len(res) : ~Unknown(Batch, res[h]))
    /\ [][(pc = "axios" /\ pc' \notin {"axios", "insertMany"}) =>
            /\ pc' = "exit"
            /\ cards' = cards
            /\ inserts' = inserts
            /\ magicCards' = magicCards
            /\ saves' = 0]_vars
    /\ [](Called("merge") => (saves = 0 /\ exitCode # Some(0)))
    /\ [][Called("merge") => saves' = saves]_vars

\* The process ended with status 1 after a merge that threw on its first
\* card object, before any record of the second batch was touched.
C18_Witness ==
    /\ err = "merge"
    /\ exitCode = Some(1)
    /\ Len(requests) = 2
    /\ \A k \in (i + 1)..Len(records) : records[k].name = Undefined

(* ------------------------------- C19 ----------------------------------- *)
\* C19: for a file without rows no request is issued and insertMany is not
\* called; the only summary ever stored has total 0 and value 0, and a
\* process that ended with status 0 has stored it.
C19_EmptyFile ==
    Len(file) = 0 =>
        /\ requests = <<>>
        /\ inserts = <<>>
        /\ \A h \in 1..Len(Summaries) : Summaries[h].total = 0 /\ Summaries[h].value = Zero
        /\ exitCode = Some(0) => Len(Summaries) = 1

\* The run over a file without rows ended with status 0.
C19_Witness ==
    /\ Len(file) = 0
    /\ exitCode = Some(0)
    /\ magicCards = <<>>

====
